---- MODULE Spec2Model ----
(***************************************************************************)
(* Model of the repetition reconciliation and feature assembly pipeline of *)
(* data_processing.py: the discrete shift search                           *)
(* (calculate_cross_correlation_arrays), the repetition matcher            *)
(* (match_flywheel_data), the trial generator (iterate_segmented_data)     *)
(* and the batch assembler (prepare_segmented_data_for_ml).                *)
(*                                                                         *)
(* Numbers.  A numpy array / pandas column is a record [v, d]: element i   *)
(* has the value v[i]/d, and d = 0 stands for the array of NaN that 0/0    *)
(* produces.  Standardised values (x - mean)/std are irrational; they are  *)
(* kept exactly as a*sqrt(n)/sqrt(w) with integers a, n, w, and sums of    *)
(* absolute differences are compared exactly by comparing squares.         *)
(* Floating-point rounding is not modelled.                                *)
(***************************************************************************)
EXTENDS Integers, Sequences, FiniteSets, TLC

VARIABLES
    pc,          \* where the batch run stands
    src_exists,  \* exists(src_path)
    listing,     \* os.listdir(src_path): per entry, is rpe_ratings.json a file
    si,          \* entries of the listing the subject loop has taken
    seen,        \* set folders listed so far, over all subjects
    subj,        \* the subject being iterated: name and rpe_values
    sets,        \* set_folders of the subject not yet iterated
    trial,       \* the cur_dict the generator has yielded
    final_df,    \* the accumulating output table
    log,         \* records emitted through logging
    written,     \* feat.csv
    last,        \* what the last run of the loop body of the assembler did
    exc,         \* the exception that left the run, if one did
    call         \* a direct call of one of the pure functions

vars == <<pc, src_exists, listing, si, seen, subj, sets, trial, final_df, log,
          written, last, exc, call>>

(***************************************************************************)
(* Bounds of the model.                                                    *)
(***************************************************************************)
MaxLen == 4
MaxVal == 2
MaxSubjects == 2
MaxSets == 2
MaxTrials == 2
MaxReps == 2
MaxDur == 2
MaxSignal == 6
Amplitude == 300
MaxMinDuration == 3
MaxRawTrials == 2
MaxStart == 2
MaxShift == 1
MaxIsoReps == 1
MaxIsoSets == 2
MaxHistory == 3
MaxPrefixes == 2
MaxDropped == 1
MaxCombinations == 2
MaxSamples == 4
MaxSplitSubjects == 3

(***************************************************************************)
(* Program constants.                                                      *)
(***************************************************************************)
Unassigned == -1
NaN == -9
Imputed == -8
KinectRate == 30
MinStdDev == 100
StdDevPNum == 2
StdDevPDen == 5

(***************************************************************************)
(* Sequence helpers (python list / numpy primitives).                      *)
(***************************************************************************)
RECURSIVE Sum(_)
Sum(s) == IF s = <<>> THEN 0 ELSE Head(s) + Sum(Tail(s))

RECURSIVE SeqMax(_)
SeqMax(s) == IF Len(s) = 1 THEN s[1]
             ELSE LET m == SeqMax(Tail(s)) IN IF s[1] >= m THEN s[1] ELSE m

Min2(a, b) == IF a <= b THEN a ELSE b
Max2(a, b) == IF a >= b THEN a ELSE b

AllTrue(n) == [i \in 1..n |-> TRUE]
AllFalse(n) == [i \in 1..n |-> FALSE]

\* Variant of SliceAssign: the new elements are inserted at lo and nothing
\* is replaced (lst[lo:lo] = new).
SliceInsert(lst, lo, hi, new) ==
    LET l == Min2(lo, Len(lst))
    IN SubSeq(lst, 1, l) \o new \o SubSeq(lst, l + 1, Len(lst))

\* python: lst[lo:hi] = new   (0-based lo, hi; both clipped to len(lst))
SliceAssign(lst, lo, hi, new) ==
    LET l == Min2(lo, Len(lst))
        h == Max2(l, Min2(hi, Len(lst)))
    IN SubSeq(lst, 1, l) \o new \o SubSeq(lst, h + 1, Len(lst))

(***************************************************************************)
(* Arrays.                                                                 *)
(***************************************************************************)
ArrayOf(vals) == [v |-> vals, d |-> 1]

\* series / c   for a positive scalar c
DivScalar(arr, c) == [v |-> arr.v, d |-> arr.d * c]

\* series / series.max(): (v[i]/d) / (max(v)/d) = v[i]/max(v); durations
\* are non-negative, so max(v) = 0 makes every element 0/0.
DivMax(arr) ==
    IF arr.v = <<>> \/ arr.d = 0 THEN arr
    ELSE [v |-> arr.v, d |-> SeqMax(arr.v)]

\* n*(x - mean(x)), an integer for integer numerators
Centered(v) == [i \in 1..Len(v) |-> Len(v) * v[i] - Sum(v)]

SumSq(s) == Sum([i \in 1..Len(s) |-> s[i] * s[i]])

\* (x - np.mean(x)) / np.std(x): element i is a[i]*sqrt(n)/sqrt(w); the
\* denominator d of x cancels.  A constant or NaN array gives 0/0 = NaN.
Standardize(arr) ==
    LET a == Centered(arr.v)
    IN [a |-> a, n |-> Len(arr.v), w |-> SumSq(a),
        nan |-> Len(arr.v) > 0 /\ (arr.d = 0 \/ SumSq(a) = 0)]

\* sign of a*sqrt(ct) - b*sqrt(cr) for ct, cr > 0
SignOf(a, b, ct, cr) ==
    IF a >= 0 /\ b <= 0 THEN (IF a = 0 /\ b = 0 THEN 0 ELSE 1)
    ELSE IF a <= 0 /\ b >= 0 THEN -1
    ELSE IF a > 0
         THEN (IF a * a * ct > b * b * cr THEN 1
               ELSE IF a * a * ct < b * b * cr THEN -1 ELSE 0)
         ELSE (IF a * a * ct < b * b * cr THEN 1
               ELSE IF a * a * ct > b * b * cr THEN -1 ELSE 0)

\* Variant of WindowDiff: the differences are summed without np.abs.
WindowDiffNoAbs(r, t, shift) ==
    IF t.n > 0 /\ (r.nan \/ t.nan)
    THEN [nan |-> TRUE, P |-> 0, Q |-> 0, ct |-> r.n * t.w, cr |-> t.n * r.w]
    ELSE [nan |-> FALSE,
          P |-> Sum([i \in 1..t.n |-> r.a[shift + i]]),
          Q |-> Sum([i \in 1..t.n |-> t.a[i]]),
          ct |-> r.n * t.w, cr |-> t.n * r.w]

\* np.sum(np.abs(reference[shift:shift + len(target)] - target)) for the
\* standardised arrays r and t.  The value is (P*sqrt(ct) - Q*sqrt(cr))
\* divided by sqrt(r.w * t.w), with ct = r.n * t.w and cr = t.n * r.w.
WindowDiff(r, t, shift) ==
    LET ct == r.n * t.w
        cr == t.n * r.w
        sg == [i \in 1..t.n |-> SignOf(r.a[shift + i], t.a[i], ct, cr)]
    IN IF t.n > 0 /\ (r.nan \/ t.nan)
       THEN [nan |-> TRUE, P |-> 0, Q |-> 0, ct |-> ct, cr |-> cr]
       ELSE [nan |-> FALSE,
             P |-> Sum([i \in 1..t.n |-> sg[i] * r.a[shift + i]]),
             Q |-> Sum([i \in 1..t.n |-> sg[i] * t.a[i]]),
             ct |-> ct, cr |-> cr]

\* x < y on scores; every comparison with NaN is false
ScoreLess(sa, sb) ==
    /\ ~sa.nan
    /\ ~sb.nan
    /\ SignOf(sa.P - sb.P, sa.Q - sb.Q, sa.ct, sa.cr) < 0

\* np.argmin: the first index of the minimum; a NaN counts as the minimum
RECURSIVE ArgMinFrom(_, _, _)
ArgMinFrom(diffs, i, best) ==
    IF i > Len(diffs) THEN best - 1
    ELSE IF diffs[best].nan THEN best - 1
    ELSE IF diffs[i].nan \/ ScoreLess(diffs[i], diffs[best])
         THEN ArgMinFrom(diffs, i + 1, i)
         ELSE ArgMinFrom(diffs, i + 1, best)

\* Variant of ArgMin: the scan ends at the first offset whose successor
\* does not score lower (early termination at a local minimum).
RECURSIVE ArgMinEarlyFrom(_, _)
ArgMinEarlyFrom(diffs, i) ==
    IF i >= Len(diffs) THEN i - 1
    ELSE IF diffs[i].nan THEN i - 1
    ELSE IF diffs[i + 1].nan \/ ScoreLess(diffs[i + 1], diffs[i])
         THEN ArgMinEarlyFrom(diffs, i + 1)
         ELSE i - 1

ArgMinEarlyStop(diffs) == ArgMinEarlyFrom(diffs, 1)

\* Variant of ArgMin: of several equal minima the last one is taken.
RECURSIVE ArgMinLastFrom(_, _, _)
ArgMinLastFrom(diffs, i, best) ==
    IF i > Len(diffs) THEN best - 1
    ELSE IF diffs[best].nan THEN best - 1
    ELSE IF diffs[i].nan \/ ~ScoreLess(diffs[best], diffs[i])
         THEN ArgMinLastFrom(diffs, i + 1, i)
         ELSE ArgMinLastFrom(diffs, i + 1, best)

ArgMinLast(diffs) == ArgMinLastFrom(diffs, 2, 1)

ArgMin(diffs) == ArgMinFrom(diffs, 2, 1)

\* range(0, len(reference) - len(target) + 1)
ShiftRange(reference, target) == 0..(Len(reference.v) - Len(target.v))

\* Variant of Diffs: range(0, len(reference) - len(target)), the last
\* offset is left out.
DiffsOffByOne(reference, target) ==
    LET r == Standardize(reference)
        t == Standardize(target)
        n == Len(reference.v) - Len(target.v)
    IN [k \in 1..(IF n > 0 THEN n ELSE 0) |-> WindowDiff(r, t, k - 1)]

\* the list diffs built by the loop, one entry per shift of the range
Diffs(reference, target) ==
    LET r == Standardize(reference)
        t == Standardize(target)
        n == Len(reference.v) - Len(target.v) + 1
    IN [k \in 1..(IF n > 0 THEN n ELSE 0) |-> WindowDiff(r, t, k - 1)]

\* np.argmin of an empty list raises ValueError
calculate_cross_correlation_arrays(reference, target) ==
    LET diffs == Diffs(reference, target)
    IN IF diffs = <<>>
       THEN [raised |-> TRUE, shift |-> 0]
       ELSE [raised |-> FALSE, shift |-> ArgMin(diffs)]

(***************************************************************************)
(* Repetition matcher.  flywheel_df is the column "duration" of the        *)
(* flywheel table, pos_df the column "PELVIS (x)__length" of the Kinect    *)
(* position feature table (one entry per row).  The result carries the     *)
(* two masks and the list of shift searches the call made.                 *)
(***************************************************************************)
\* Variant of MatchBySearch: the shorter side is passed as reference.
MatchBySearchShorterFirst(flywheel_df, pos_df) ==
    LET flywheel_duration == ArrayOf(flywheel_df)
        pos_duration == DivScalar(ArrayOf(pos_df), KinectRate)
        flywheel_mean == DivMax(flywheel_duration)
        pos_mean == DivMax(pos_duration)
        max_length == Min2(Len(flywheel_mean.v), Len(pos_mean.v))
    IN IF Len(flywheel_mean.v) > Len(pos_mean.v)
       THEN LET r == calculate_cross_correlation_arrays(pos_mean, flywheel_mean)
            IN [raised |-> r.raised,
                searches |-> << <<pos_mean, flywheel_mean>> >>,
                shift |-> r.shift,
                flywheel_mask |->
                    SliceAssign(AllFalse(Len(flywheel_mean.v)), r.shift,
                                r.shift + max_length, AllTrue(max_length)),
                pos_mask |-> AllTrue(Len(pos_mean.v))]
       ELSE LET r == calculate_cross_correlation_arrays(flywheel_mean, pos_mean)
            IN [raised |-> r.raised,
                searches |-> << <<flywheel_mean, pos_mean>> >>,
                shift |-> r.shift,
                flywheel_mask |-> AllTrue(Len(flywheel_mean.v)),
                pos_mask |->
                    SliceAssign(AllFalse(Len(pos_mean.v)), r.shift,
                                r.shift + max_length, AllTrue(max_length))]

\* lines 52-68: the two duration profiles, the shift search with the longer
\* side as reference, and the mask of the longer side
MatchBySearch(flywheel_df, pos_df) ==
    LET flywheel_duration == ArrayOf(flywheel_df)
        pos_duration == DivScalar(ArrayOf(pos_df), KinectRate)
        flywheel_mean == DivMax(flywheel_duration)
        pos_mean == DivMax(pos_duration)
        max_length == Min2(Len(flywheel_mean.v), Len(pos_mean.v))
    IN IF Len(flywheel_mean.v) > Len(pos_mean.v)
       THEN LET r == calculate_cross_correlation_arrays(flywheel_mean, pos_mean)
            IN [raised |-> r.raised,
                searches |-> << <<flywheel_mean, pos_mean>> >>,
                shift |-> r.shift,
                flywheel_mask |->
                    SliceAssign(AllFalse(Len(flywheel_mean.v)), r.shift,
                                r.shift + max_length, AllTrue(max_length)),
                pos_mask |-> AllTrue(Len(pos_mean.v))]
       ELSE LET r == calculate_cross_correlation_arrays(pos_mean, flywheel_mean)
            IN [raised |-> r.raised,
                searches |-> << <<pos_mean, flywheel_mean>> >>,
                shift |-> r.shift,
                flywheel_mask |-> AllTrue(Len(flywheel_mean.v)),
                pos_mask |->
                    SliceAssign(AllFalse(Len(pos_mean.v)), r.shift,
                                r.shift + max_length, AllTrue(max_length))]

\* Variant of match_flywheel_data without the equal-length return.
match_flywheel_data_no_shortcut(flywheel_df, pos_df) ==
    MatchBySearch(flywheel_df, pos_df)

match_flywheel_data(flywheel_df, pos_df) ==
    IF Len(flywheel_df) = Len(pos_df)
    THEN [raised |-> FALSE, searches |-> <<>>, shift |-> 0,
          flywheel_mask |-> AllTrue(Len(flywheel_df)),
          pos_mask |-> AllTrue(Len(pos_df))]
    ELSE MatchBySearch(flywheel_df, pos_df)

(***************************************************************************)
(* Tables.  A time-series table is the set of values its "Repetition"      *)
(* column takes; a feature table is the sequence of its rows, each named   *)
(* by the repetition it was computed from.                                 *)
(***************************************************************************)
RECURSIVE SortedSeq(_)
SortedSeq(S) ==
    IF S = {} THEN <<>>
    ELSE LET m == CHOOSE x \in S : \A y \in S : x <= y
         IN <<m>> \o SortedSeq(S \ {m})

Reps(n) == 0..(n - 1)

\* mask_repetitions(df, reps, col_name): every sample gets the index of the
\* repetition interval it lies in, or the sentinel.  The table the
\* intervals were cut from has samples in every interval.
mask_repetitions(n, primary) ==
    IF primary THEN {Reps(n), Reps(n) \cup {Unassigned}}
    ELSE SUBSET (Reps(n) \cup {Unassigned})

\* Variant of DropUnassigned: the table is handed on as it is.
KeepUnassigned(tbl) == tbl

\* df[df["Repetition"] != -1]
DropUnassigned(tbl) == tbl \ {Unassigned}

\* Variant of RepsDiffer: the comparison is switched off, as the assert
\* it replaced is.
RepsNeverDiffer(pos_df, imu_df) == FALSE

\* len(pos_reps) != len(imu_reps), the numbers of distinct values of the
\* "Repetition" column of the two annotated tables
RepsDiffer(pos_df, imu_df) == Cardinality(pos_df) # Cardinality(imu_df)

\* extract_features(df, column_id="Repetition") and
\* df.groupby("Repetition").mean(): one row per distinct value, sorted
extract_features(tbl) == SortedSeq(tbl)

\* df[mask] for a list of booleans: the rows where the mask is True;
\* pandas raises when the mask and the table differ in length
BoolIndex(rows, mask) ==
    IF Len(mask) # Len(rows)
    THEN [raised |-> TRUE, rows |-> <<>>]
    ELSE [raised |-> FALSE,
          rows |-> LET keep == {i \in 1..Len(rows) : mask[i]}
                       idx == SortedSeq(keep)
                   IN [j \in 1..Len(idx) |-> rows[idx[j]]]]

\* cell of row i (1-based) of a table in pd.concat(axis=1) after
\* reset_index(drop=True): tables shorter than the longest get NaN
Cell(tbl, i) == IF i <= Len(tbl) THEN tbl[i] ELSE NaN

MaxOf(S) == CHOOSE x \in S : \A y \in S : y <= x

\* Variant of Assemble: rep_id is taken from the index the position feature
\* table had before reset_index (the repetition number, NaN where padded).
AssembleKeepsIndex(t, pos, ori, fly, imu, hrv) ==
    LET n == MaxOf({Len(pos), Len(ori), Len(fly), Len(imu), Len(hrv)})
    IN [i \in 1..n |->
          [pos |-> Cell(pos, i), ori |-> Cell(ori, i), fly |-> Cell(fly, i),
           imu |-> Cell(imu, i), hrv |-> Cell(hrv, i),
           rpe |-> t.rpe, subject |-> t.subject, set_id |-> t.set_id,
           rep_id |-> Cell(pos, i)]]

\* total_df of one trial: pd.concat of the five tables side by side, then
\* the rpe, subject, set_id and rep_id columns
Assemble(t, pos, ori, fly, imu, hrv) ==
    LET n == MaxOf({Len(pos), Len(ori), Len(fly), Len(imu), Len(hrv)})
    IN [i \in 1..n |->
          [pos |-> Cell(pos, i), ori |-> Cell(ori, i), fly |-> Cell(fly, i),
           imu |-> Cell(imu, i), hrv |-> Cell(hrv, i),
           rpe |-> t.rpe, subject |-> t.subject, set_id |-> t.set_id,
           rep_id |-> i - 1]]

ImputeCell(c) == IF c = NaN THEN Imputed ELSE c

\* impute_dataframe(final_df): missing cells are filled, no row is dropped
impute_dataframe(df) ==
    [i \in 1..Len(df) |->
        [df[i] EXCEPT !.pos = ImputeCell(@), !.ori = ImputeCell(@),
                      !.fly = ImputeCell(@), !.imu = ImputeCell(@),
                      !.hrv = ImputeCell(@)]]

\* where the feature extraction collaborator raises: 0 is nowhere, i is in
\* the i-th of the three extract_features calls (imu, pos, ori)
FailPoints == 0..3

\* the calls the try block makes to the collaborator and to the matcher, in
\* program order: the matcher is reached after the three extractions
TrialCalls(fail) ==
    IF fail > 0 THEN [i \in 1..fail |-> "extract_features"]
    ELSE <<"extract_features", "extract_features", "extract_features",
           "match_flywheel_data">>

\* Variant of TryTrial: the rows assembled from the trial's tables are kept
\* when the try block raises (the append is not the last statement).
TryTrialKeepsRows(t, fail) ==
    LET imu_features_df == extract_features(t.imu_df)
        pos_features_df == extract_features(t.pos_df)
        ori_features_df == extract_features(t.ori_df)
        hrv_mean == extract_features(t.hrv_df)
        m == match_flywheel_data(t.flywheel_df, t.pos_len)
        fly == BoolIndex([i \in 1..Len(t.flywheel_df) |-> i - 1], m.flywheel_mask)
        pos == BoolIndex(pos_features_df, m.pos_mask)
        ori == BoolIndex(ori_features_df, m.pos_mask)
        raised == fail > 0 \/ m.raised \/ fly.raised \/ pos.raised \/ ori.raised
    IN [raised |-> raised,
        matched |-> fail = 0,
        calls |-> TrialCalls(fail),
        K |-> Len(pos_features_df),
        R |-> Len(t.flywheel_df),
        imu_rows |-> Len(imu_features_df),
        hrv_rows |-> Len(hrv_mean),
        searches |-> IF fail > 0 THEN 0 ELSE Len(m.searches),
        shift |-> IF fail > 0 THEN 0 ELSE m.shift,
        flywheel_mask |-> IF fail > 0 THEN <<>> ELSE m.flywheel_mask,
        pos_mask |-> IF fail > 0 THEN <<>> ELSE m.pos_mask,
        total_df |-> Assemble(t, pos.rows, ori.rows, fly.rows,
                              imu_features_df, hrv_mean)]

\* Variant of TryTrial: the matcher is called on the time-series table
\* before the collaborator is.
TryTrialMatchFirst(t, fail) ==
    [TryTrialKeepsRows(t, fail) EXCEPT
        !.calls = <<"match_flywheel_data">> \o
                  [i \in 1..(IF fail > 0 THEN fail ELSE 3) |-> "extract_features"],
        !.total_df = IF TryTrialKeepsRows(t, fail).raised THEN <<>> ELSE @]

\* the body of the try block of prepare_segmented_data_for_ml for one
\* trial; fail says where the feature extraction collaborator raises
TryTrial(t, fail) ==
    LET imu_features_df == extract_features(t.imu_df)
        pos_features_df == extract_features(t.pos_df)
        ori_features_df == extract_features(t.ori_df)
        hrv_mean == extract_features(t.hrv_df)
        m == match_flywheel_data(t.flywheel_df, t.pos_len)
        fly == BoolIndex([i \in 1..Len(t.flywheel_df) |-> i - 1], m.flywheel_mask)
        pos == BoolIndex(pos_features_df, m.pos_mask)
        ori == BoolIndex(ori_features_df, m.pos_mask)
        raised == fail > 0 \/ m.raised \/ fly.raised \/ pos.raised \/ ori.raised
    IN [raised |-> raised,
        matched |-> fail = 0,
        calls |-> TrialCalls(fail),
        K |-> Len(pos_features_df),
        R |-> Len(t.flywheel_df),
        imu_rows |-> Len(imu_features_df),
        hrv_rows |-> Len(hrv_mean),
        searches |-> IF fail > 0 THEN 0 ELSE Len(m.searches),
        shift |-> IF fail > 0 THEN 0 ELSE m.shift,
        flywheel_mask |-> IF fail > 0 THEN <<>> ELSE m.flywheel_mask,
        pos_mask |-> IF fail > 0 THEN <<>> ELSE m.pos_mask,
        total_df |-> IF raised THEN <<>>
                     ELSE Assemble(t, pos.rows, ori.rows, fly.rows,
                                   imu_features_df, hrv_mean)]

(***************************************************************************)
(* Inputs.                                                                 *)
(***************************************************************************)
SeqsUpTo(S, n) == UNION {[1..k -> S] : k \in 0..n}

\* json.load(f)["rpe_ratings"] of a subject whose file lists nr ratings;
\* the ratings of different subjects and sets are pairwise different
rpe_ratings(name, nr) == [k \in 1..nr |-> 10 * name + (k - 1)]

Durations == 1..MaxDur

\* os.listdir(subject_path) without rpe_ratings.json: the set folders in
\* the order the directory lists them, each named by the number its name
\* starts with; the folder names are distinct, the numbers need not be
SetFolders == SeqsUpTo(Reps(MaxSets), MaxSets)

\* insertion of x into an ascending sequence, after the entries equal to it
RECURSIVE Insert(_, _)
Insert(x, sq) ==
    IF sq = <<>> THEN <<x>>
    ELSE IF x < Head(sq) THEN <<x>> \o sq
    ELSE <<Head(sq)>> \o Insert(x, Tail(sq))

\* Variant of SortFolders: the folders are taken as listed.
Unsorted(folders) == folders

\* sorted(map(lambda x: (int(x.split("_")[0]), join(subject_path, x)), ...)):
\* ascending by number
RECURSIVE SortFolders(_)
SortFolders(folders) ==
    IF folders = <<>> THEN <<>>
    ELSE Insert(folders[Len(folders)],
                SortFolders(SubSeq(folders, 1, Len(folders) - 1)))

NoTrial == [set_id |-> -1]
NoSubject == [name |-> 0, rpe_values |-> <<>>, set_listing |-> <<>>]
NoLast == [status |-> "none"]
NoCall == [fn |-> "none"]
NoExc == [kind |-> "none", subject |-> 0, set_id |-> -1]

\* kinds of exception that leave the run: "src_path" and "rpe_file" are the
\* two FileNotFoundError of iterate_segmented_data, "trial_tables" anything
\* raised while a trial's tables are read, filtered, segmented or
\* annotated, "rpe_values" the KeyError of rpe_values[set_id]
TrialExceptions == {"trial_tables", "rpe_values"}

Raise(kind, subject, set_id) ==
    [kind |-> kind, subject |-> subject, set_id |-> set_id]
NotWritten == [done |-> FALSE, rows |-> <<>>]

\* the warning of line 208, which names the two numbers of repetitions
LogWarning(subject, set_id, pos_reps, imu_reps) ==
    [level |-> "warning", subject |-> subject, set_id |-> set_id,
     pos_reps |-> pos_reps, imu_reps |-> imu_reps]

LogRec(level, subject, set_id) ==
    [level |-> level, subject |-> subject, set_id |-> set_id]

(***************************************************************************)
(* The batch run: prepare_segmented_data_for_ml driving the generator      *)
(* iterate_segmented_data.                                                 *)
(***************************************************************************)
Init ==
    /\ pc = "start"
    /\ src_exists \in BOOLEAN
    /\ listing \in SeqsUpTo(BOOLEAN, MaxSubjects)
    /\ si = 0
    /\ seen = 0
    /\ subj = NoSubject
    /\ sets = <<>>
    /\ trial = NoTrial
    /\ final_df = <<>>
    /\ log = <<>>
    /\ written = NotWritten
    /\ last = NoLast
    /\ exc = NoExc
    /\ call = NoCall

\* if not exists(src_path): raise FileNotFoundError
Start ==
    /\ pc = "start"
    /\ pc' = IF src_exists THEN "subjects" ELSE "aborted"
    /\ exc' = IF src_exists THEN exc ELSE Raise("src_path", 0, -1)
    /\ UNCHANGED <<src_exists, listing, si, seen, subj, sets, trial, final_df,
                   log, written, last, call>>

\* for subject in os.listdir(src_path): the rpe file check, the ratings
\* and the sorted list of set folders
NextSubject ==
    /\ pc = "subjects"
    /\ si < Len(listing)
    /\ si' = si + 1
    /\ IF ~listing[si + 1]
       THEN /\ pc' = "aborted"
            /\ exc' = Raise("rpe_file", si + 1, -1)
            /\ UNCHANGED <<seen, subj, sets>>
       ELSE \E nr \in 0..MaxSets, set_folders \in SetFolders :
               /\ seen + Len(set_folders) <= MaxTrials
               /\ seen' = seen + Len(set_folders)
               /\ subj' = [name |-> si + 1, rpe_values |-> rpe_ratings(si + 1, nr),
                           set_listing |-> set_folders]
               /\ sets' = SortFolders(set_folders)
               /\ pc' = "sets"
               /\ exc' = exc
    /\ UNCHANGED <<src_exists, listing, trial, final_df, log, written, last, call>>

\* one iteration of "for set_id, set_folder in set_folders" up to its
\* continue, its yield or an exception; pos_reps and imu_reps are the
\* lengths of the generator's locals of that name when it yields
NextSet ==
    /\ pc = "sets"
    /\ sets # <<>>
    /\ LET set_id == Head(sets)
           info == Append(log, LogRec("info", subj.name, set_id))
       IN /\ sets' = Tail(sets)
          /\ \/ \* reading, filtering, segmenting or annotating raises
                /\ pc' = "aborted"
                /\ exc' = Raise("trial_tables", subj.name, set_id)
                /\ log' = info
                /\ UNCHANGED trial
             \/ \E n \in 0..MaxReps :
                \E pos_df \in mask_repetitions(n, TRUE),
                   imu_df \in mask_repetitions(n, FALSE) :
                   IF RepsDiffer(pos_df, imu_df)
                   THEN /\ log' = Append(info, LogWarning(subj.name, set_id,
                                                          Cardinality(pos_df),
                                                          Cardinality(imu_df)))
                        /\ pc' = "sets"
                        /\ UNCHANGED <<trial, exc>>
                   ELSE IF set_id + 1 \notin DOMAIN subj.rpe_values
                   THEN \* rpe_values[set_id] raises KeyError
                        /\ log' = info
                        /\ pc' = "aborted"
                        /\ exc' = Raise("rpe_values", subj.name, set_id)
                        /\ UNCHANGED trial
                   ELSE \E hrv_df \in mask_repetitions(n, TRUE),
                           pos_len \in [1..n -> Durations],
                           flywheel_df \in SeqsUpTo(Durations, MaxReps) :
                        /\ log' = info
                        /\ pc' = "yielded"
                        /\ exc' = exc
                        /\ trial' = [rpe |-> subj.rpe_values[set_id + 1],
                                     subject |-> subj.name,
                                     set_id |-> set_id,
                                     imu_df |-> DropUnassigned(imu_df),
                                     pos_df |-> DropUnassigned(pos_df),
                                     ori_df |-> DropUnassigned(pos_df),
                                     hrv_df |-> DropUnassigned(hrv_df),
                                     pos_len |-> pos_len,
                                     flywheel_df |-> flywheel_df,
                                     pos_reps |-> Cardinality(pos_df),
                                     imu_reps |-> Cardinality(imu_df)]
    /\ UNCHANGED <<src_exists, listing, si, seen, subj, final_df, written, last, call>>

\* the set loop of a subject is exhausted
EndSets ==
    /\ pc = "sets"
    /\ sets = <<>>
    /\ pc' = "subjects"
    /\ UNCHANGED <<src_exists, listing, si, seen, subj, sets, trial, final_df,
                   log, written, last, exc, call>>

\* the loop body of prepare_segmented_data_for_ml: try ... except
\* the rows of total_df that the table does not hold
RECURSIVE NewRows(_, _)
NewRows(table, total_df) ==
    IF total_df = <<>> THEN <<>>
    ELSE IF \E k \in 1..Len(table) : table[k] = Head(total_df)
         THEN NewRows(table, Tail(total_df))
         ELSE <<Head(total_df)>> \o NewRows(table, Tail(total_df))

\* Variant of ConcatRows: rows the table already holds are not appended
\* again.
ConcatNewRows(table, total_df) == table \o NewRows(table, total_df)

\* pd.concat([final_df, total_df], axis=0)
ConcatRows(table, total_df) == table \o total_df

HandleTrial ==
    /\ pc = "yielded"
    /\ \E fail \in FailPoints : \E r \in {TryTrial(trial, fail)} :
             /\ final_df' = ConcatRows(final_df, r.total_df)
             /\ log' = IF r.raised
                       THEN Append(log, LogRec("error", trial.subject, trial.set_id))
                       ELSE log
             /\ last' = [status |-> IF r.raised THEN "error" ELSE "ok",
                         subject |-> trial.subject, set_id |-> trial.set_id,
                         matched |-> r.matched, calls |-> r.calls,
                         K |-> r.K, R |-> r.R,
                         imu_rows |-> r.imu_rows, hrv_rows |-> r.hrv_rows,
                         searches |-> r.searches, shift |-> r.shift,
                         flywheel_mask |-> r.flywheel_mask,
                         pos_mask |-> r.pos_mask,
                         total_df |-> r.total_df]
    /\ trial' = NoTrial
    /\ pc' = "sets"
    /\ UNCHANGED <<src_exists, listing, si, seen, subj, sets, written, exc, call>>

\* after the loop: impute_dataframe, reset_index, to_csv
Finish ==
    /\ pc = "subjects"
    /\ si = Len(listing)
    /\ written' = [done |-> TRUE, rows |-> impute_dataframe(final_df)]
    /\ pc' = "done"
    /\ UNCHANGED <<src_exists, listing, si, seen, subj, sets, trial, final_df,
                   log, last, exc, call>>

Next ==
    \/ Start
    \/ NextSubject
    \/ NextSet
    \/ EndSets
    \/ HandleTrial
    \/ Finish

Spec == Init /\ [][Next]_vars

(***************************************************************************)
(* Direct calls of the pure functions on bounded arguments: x is the       *)
(* first argument (reference, flywheel_df), y the second (target, pos_df). *)
(***************************************************************************)
Values == 1..MaxVal

FnArgs ==
    (SeqsUpTo(Values, MaxLen) \X SeqsUpTo(Values, MaxLen))
        \cup {<< <<1, 2, 3, 4, 5>>, <<2, 3, 4>> >>}

NoXC == [raised |-> FALSE, shift |-> 0]
NoMatch == [raised |-> FALSE, searches |-> <<>>, shift |-> 0,
            flywheel_mask |-> <<>>, pos_mask |-> <<>>]

InitFn ==
    /\ pc = "fn"
    /\ src_exists = FALSE
    /\ listing = <<>>
    /\ si = 0
    /\ seen = 0
    /\ subj = NoSubject
    /\ sets = <<>>
    /\ trial = NoTrial
    /\ final_df = <<>>
    /\ log = <<>>
    /\ written = NotWritten
    /\ last = NoLast
    /\ exc = NoExc
    /\ \E args \in FnArgs :
          call = [fn |-> "args", x |-> args[1], y |-> args[2],
                  xc |-> NoXC, m |-> NoMatch]

CallCrossCorrelation ==
    /\ pc = "fn"
    /\ call.fn = "args"
    /\ call' = [call EXCEPT
                  !.fn = "calculate_cross_correlation_arrays",
                  !.xc = calculate_cross_correlation_arrays(ArrayOf(call.x),
                                                            ArrayOf(call.y))]
    /\ UNCHANGED <<pc, src_exists, listing, si, seen, subj, sets, trial,
                   final_df, log, written, last, exc>>

CallMatch ==
    /\ pc = "fn"
    /\ call.fn = "args"
    /\ call' = [call EXCEPT
                  !.fn = "match_flywheel_data",
                  !.m = match_flywheel_data(call.x, call.y)]
    /\ UNCHANGED <<pc, src_exists, listing, si, seen, subj, sets, trial,
                   final_df, log, written, last, exc>>

NextFn ==
    \/ CallCrossCorrelation
    \/ CallMatch

SpecFn == InitFn /\ [][NextFn]_vars

(***************************************************************************)
(* The repetition segmenter segment_exercises_based_on_joint.  joint_data  *)
(* is a sequence of integer samples; indices are those of the code         *)
(* (0-based), so joint_data[i] of the code is At(joint_data, i).  The      *)
(* plots the function draws have no effect on what it returns, with or     *)
(* without show.                                                           *)
(***************************************************************************)
At(x, i) == x[i + 1]

\* joint_data[t1:t2] for 0 <= t1 and 0 <= t2 <= len(joint_data)
Slice(x, t1, t2) == SubSeq(x, t1 + 1, t2)

\* the plateau scan of scipy's local maxima search: the first index from
\* i_ahead on that is i_max or holds a value different from v
RECURSIVE PlateauEnd(_, _, _, _)
PlateauEnd(x, i_ahead, i_max, v) ==
    IF i_ahead < i_max /\ At(x, i_ahead) = v
    THEN PlateauEnd(x, i_ahead + 1, i_max, v)
    ELSE i_ahead

\* scipy.signal find_peaks, local maxima: a sample, or the middle of a
\* plateau, that is strictly higher than both neighbours; the first and
\* the last sample are never maxima
RECURSIVE LocalMaxima(_, _)
LocalMaxima(x, i) ==
    IF i >= Len(x) - 1 THEN <<>>
    ELSE IF At(x, i - 1) < At(x, i)
         THEN LET i_ahead == PlateauEnd(x, i + 1, Len(x) - 1, At(x, i))
              IN IF At(x, i_ahead) < At(x, i)
                 THEN <<(i + i_ahead - 1) \div 2>> \o LocalMaxima(x, i_ahead + 1)
                 ELSE LocalMaxima(x, i + 1)
         ELSE LocalMaxima(x, i + 1)

\* the elements of sq whose entry of mask is TRUE, in the order of sq
Keep(sq, mask) ==
    LET idx == SortedSeq({i \in 1..Len(sq) : mask[i]})
    IN [j \in 1..Len(idx) |-> sq[idx[j]]]

\* signal.find_peaks(joint_data, height=0)[0]
find_peaks(x) ==
    LET maxima == LocalMaxima(x, 1)
    IN Keep(maxima, [k \in 1..Len(maxima) |-> At(x, maxima[k]) >= 0])

\* [0] + list(peaks) + [len(joint_data) - 1]
Boundaries(x) == <<0>> \o find_peaks(x) \o <<Len(x) - 1>>

\* Variant of Pairs: zip(peaks, peaks[2:]), every boundary is paired with
\* the next but one.
PairsSkipOne(b) == [k \in 1..(IF Len(b) > 2 THEN Len(b) - 2 ELSE 0) |-> <<b[k], b[k + 2]>>]

\* zip(peaks, peaks[1:])
Pairs(b) == [k \in 1..(Len(b) - 1) |-> <<b[k], b[k + 1]>>]

\* n^2 times the variance of a non-empty sequence: n*sum(x^2) - sum(x)^2
VarTimesN2(obs) == Len(obs) * SumSq(obs) - Sum(obs) * Sum(obs)

\* np.std(observation) < 100; the std of an empty observation is NaN and
\* the comparison is False
StdBelowMin(obs) ==
    /\ Len(obs) > 0
    /\ VarTimesN2(obs) < MinStdDev * MinStdDev * Len(obs) * Len(obs)

\* std_dev < 100 or length < min_duration
Rejected(x, t1, t2, min_duration) ==
    StdBelowMin(Slice(x, t1, t2)) \/ t2 - t1 < min_duration

\* the cost fastdtw gives the observation joint_data[t1:t2] against the
\* exemplar; its value is the library's and is named by the observation
calculate_fast_dtw_cost(t1, t2) == <<t1, t2>>

\* the function: line 28 indexes joint_data with the boundaries, which
\* raises IndexError for an empty signal; then the loop over the pairs
segment_exercises_based_on_joint(joint_data, min_duration) ==
    LET peaks == Boundaries(joint_data)
        pairs == Pairs(peaks)
        candidates ==
            Keep(pairs, [k \in 1..Len(pairs) |->
                            ~Rejected(joint_data, pairs[k][1], pairs[k][2],
                                      min_duration)])
    IN IF Len(joint_data) = 0
       THEN [raised |-> TRUE, peaks |-> peaks, candidates |-> <<>>, costs |-> <<>>]
       ELSE [raised |-> FALSE, peaks |-> peaks, candidates |-> candidates,
             costs |-> [k \in 1..Len(candidates) |->
                          calculate_fast_dtw_cost(candidates[k][1], candidates[k][2])]]

\* sample values: a full swing either way, rest, and a slight movement
SampleValues == {-Amplitude, 0, Amplitude \div 3, Amplitude}

\* five periods of a sine-like movement with five peaks, evenly spaced
SineLike ==
    <<0, Amplitude, 0, -Amplitude, 0, Amplitude, 0, -Amplitude,
      0, Amplitude, 0, -Amplitude, 0, Amplitude, 0, -Amplitude,
      0, Amplitude, 0, -Amplitude, 0>>

\* the same movement started and ended at a trough
CosineLike ==
    <<-Amplitude, 0, Amplitude, 0, -Amplitude, 0, Amplitude, 0,
      -Amplitude, 0, Amplitude, 0, -Amplitude, 0, Amplitude, 0,
      -Amplitude, 0, Amplitude, 0, -Amplitude>>

\* two swings with a slight movement between them
WithPause ==
    <<-Amplitude, 0, Amplitude \div 3, 0, Amplitude, 0, -Amplitude>>

Signals ==
    SeqsUpTo(SampleValues, MaxSignal) \cup {SineLike, CosineLike, WithPause}

\* a minimum duration is a positive number of samples
MinDurations == 1..MaxMinDuration

NoSeg == [raised |-> FALSE, peaks |-> <<>>, candidates |-> <<>>, costs |-> <<>>]

InitSeg ==
    /\ pc = "fn"
    /\ src_exists = FALSE
    /\ listing = <<>>
    /\ si = 0
    /\ seen = 0
    /\ subj = NoSubject
    /\ sets = <<>>
    /\ trial = NoTrial
    /\ final_df = <<>>
    /\ log = <<>>
    /\ written = NotWritten
    /\ last = NoLast
    /\ exc = NoExc
    /\ \E joint_data \in Signals, min_duration \in MinDurations :
          call = [fn |-> "seg_args", joint_data |-> joint_data,
                  min_duration |-> min_duration, seg |-> NoSeg]

CallSegment ==
    /\ pc = "fn"
    /\ call.fn = "seg_args"
    /\ call' = [call EXCEPT
                  !.fn = "segment_exercises_based_on_joint",
                  !.seg = segment_exercises_based_on_joint(call.joint_data,
                                                           call.min_duration)]
    /\ UNCHANGED <<pc, src_exists, listing, si, seen, subj, sets, trial,
                   final_df, log, written, last, exc>>

NextSeg == CallSegment

SpecSeg == InitSeg /\ [][NextSeg]_vars

(***************************************************************************)
(* process_all_raw_data: the device synchronisation of the raw trials.     *)
(* The time index of a table is the sequence of its timestamps; a table    *)
(* that starts at t0 has the index <<t0, t0 + 1>>.                         *)
(***************************************************************************)
IndexFrom(t0) == <<t0, t0 + 1>>

\* index += shift_dt
ShiftIndex(index, shift_dt) == [i \in 1..Len(index) |-> index[i] + shift_dt]

\* apply_butterworth_filter(df, ...): the samples are filtered, the time
\* index is kept
apply_butterworth_filter(index) == index

\* calculate_acceleration(pos_df): a new table of accelerations on the
\* time index of pos_df
calculate_acceleration(index) == index

\* what calculate_cross_correlation_with_datetime can return
Shifts == (-MaxShift)..MaxShift

\* the tables iterate_over_all_subjects hands out for one trial
RawTrials ==
    [pos_df : {IndexFrom(t) : t \in 0..MaxStart},
     imu_df : {IndexFrom(t) : t \in 0..MaxStart},
     hrv_df : {IndexFrom(t) : t \in 0..MaxStart},
     flywheel_df : {IndexFrom(t) : t \in 0..MaxStart}]

\* Variant of ShiftKinect: the offset is added to the acceleration and
\* position tables only.
ShiftKinectNotOrientation(tables, shift_dt) ==
    [tables EXCEPT !.azure_acc_df = ShiftIndex(@, shift_dt),
                   !.pos_df = ShiftIndex(@, shift_dt)]

\* lines 110-112: azure_acc_df.index, pos_df.index and ori_df.index
\* each += shift_dt
ShiftKinect(tables, shift_dt) ==
    [tables EXCEPT !.azure_acc_df = ShiftIndex(@, shift_dt),
                   !.pos_df = ShiftIndex(@, shift_dt),
                   !.ori_df = ShiftIndex(@, shift_dt)]

\* lines 96-112 for one trial: the tables after filtering, acceleration
\* and the shift; pos_df and ori_df come from the same Kinect recording
SyncTrial(raw_trial, shift_dt) ==
    ShiftKinect([pos_df |-> raw_trial.pos_df,
                 ori_df |-> raw_trial.pos_df,
                 azure_acc_df |-> calculate_acceleration(raw_trial.pos_df),
                 imu_df |-> apply_butterworth_filter(raw_trial.imu_df),
                 hrv_df |-> raw_trial.hrv_df,
                 flywheel_df |-> raw_trial.flywheel_df],
                shift_dt)

\* lines 131-132: the five tables written to the trial's dst_path
ToCsv(tables) ==
    [pos |-> tables.pos_df, ori |-> tables.ori_df, imu |-> tables.imu_df,
     hrv |-> tables.hrv_df, flywheel |-> tables.flywheel_df]

InitRaw ==
    /\ pc = "raw"
    /\ src_exists = FALSE
    /\ listing = <<>>
    /\ si = 0
    /\ seen = 0
    /\ subj = NoSubject
    /\ sets = <<>>
    /\ trial = NoTrial
    /\ final_df = <<>>
    /\ log = <<>>
    /\ written = NotWritten
    /\ last = NoLast
    /\ exc = NoExc
    /\ call = [fn |-> "process_all_raw_data", set_id |-> -1]

\* one iteration of the loop over iterate_over_all_subjects(): the shift
\* is computed by the one call at line 103
ProcessRawTrial ==
    /\ pc = "raw"
    /\ call.set_id + 1 < MaxRawTrials
    /\ \E raw_trial \in RawTrials, shift_dt \in Shifts :
       \E tables \in {SyncTrial(raw_trial, shift_dt)} :
          call' = [fn |-> "process_all_raw_data",
                   set_id |-> call.set_id + 1,
                   trial |-> raw_trial,
                   shift_calls |-> <<shift_dt>>,
                   azure_acc_df |-> tables.azure_acc_df,
                   csv |-> ToCsv(tables)]
    /\ UNCHANGED <<pc, src_exists, listing, si, seen, subj, sets, trial,
                   final_df, log, written, last, exc>>

\* the iterator is exhausted
EndRaw ==
    /\ pc = "raw"
    /\ call.set_id >= 0
    /\ pc' = "raw_done"
    /\ UNCHANGED <<src_exists, listing, si, seen, subj, sets, trial,
                   final_df, log, written, last, exc, call>>

NextRaw ==
    \/ ProcessRawTrial
    \/ EndRaw

SpecRaw == InitRaw /\ [][NextRaw]_vars

(***************************************************************************)
(* One trial after different earlier trials.  A trial t is handled by the  *)
(* loop body of prepare_segmented_data_for_ml once on the empty table and  *)
(* once on the table that a sequence of earlier loop iterations left; the  *)
(* earlier sets are t again, a set with the same tables and another        *)
(* number, each with or without a failure, or a set that was not yielded.  *)
(* The state is kept in call.                                              *)
(***************************************************************************)
\* the trials iterate_segmented_data can yield for one subject: equal
\* numbers of distinct labels in the position and the IMU table, the
\* sentinel rows dropped
IsoTrials ==
    UNION {
      UNION {
        {[rpe |-> 10 + set_id, subject |-> 1, set_id |-> set_id,
          imu_df |-> DropUnassigned(labels[2]),
          pos_df |-> DropUnassigned(labels[1]),
          ori_df |-> DropUnassigned(labels[1]),
          hrv_df |-> DropUnassigned(labels[1]),
          pos_len |-> pos_len,
          flywheel_df |-> flywheel_df,
          pos_reps |-> Cardinality(labels[1]),
          imu_reps |-> Cardinality(labels[2])] :
            set_id \in Reps(MaxIsoSets),
            pos_len \in [1..n -> Durations],
            flywheel_df \in SeqsUpTo(Durations, MaxIsoReps)} :
        labels \in {l \in mask_repetitions(n, TRUE) \X mask_repetitions(n, FALSE) :
                      ~RepsDiffer(l[1], l[2])}} :
      n \in 0..MaxIsoReps}

\* another set of the same subject with the same tables
Sibling(t) ==
    LET other == (t.set_id + 1) % MaxIsoSets
    IN [t EXCEPT !.set_id = other, !.rpe = 10 + other]

InitIso ==
    /\ pc = "iso"
    /\ src_exists = FALSE
    /\ listing = <<>>
    /\ si = 0
    /\ seen = 0
    /\ subj = NoSubject
    /\ sets = <<>>
    /\ trial = NoTrial
    /\ final_df = <<>>
    /\ log = <<>>
    /\ written = NotWritten
    /\ last = NoLast
    /\ exc = NoExc
    /\ \E t \in IsoTrials, fail \in FailPoints :
          call = [fn |-> "history", t |-> t, fail |-> fail, table |-> <<>>,
                  handled |-> 0, failed |-> 0, skipped |-> 0,
                  alone |-> <<>>, after |-> <<>>]

\* an earlier iteration of the loop: the trial is handled on the table
IsoEarlierTrial ==
    /\ pc = "iso"
    /\ call.fn = "history"
    /\ call.handled + call.skipped < MaxHistory
    /\ \E u \in {call.t, Sibling(call.t)}, fail \in FailPoints :
       \E r \in {TryTrial(u, fail)} :
          call' = [call EXCEPT !.table = ConcatRows(call.table, r.total_df),
                               !.handled = @ + 1,
                               !.failed = IF r.raised THEN @ + 1 ELSE @]
    /\ UNCHANGED <<pc, src_exists, listing, si, seen, subj, sets, trial,
                   final_df, log, written, last, exc>>

\* an earlier set that the generator skipped with a warning
IsoSkippedTrial ==
    /\ pc = "iso"
    /\ call.fn = "history"
    /\ call.handled + call.skipped < MaxHistory
    /\ call' = [call EXCEPT !.skipped = @ + 1]
    /\ UNCHANGED <<pc, src_exists, listing, si, seen, subj, sets, trial,
                   final_df, log, written, last, exc>>

\* the trial itself, on the empty table and on the table of the history
IsoRunTrial ==
    /\ pc = "iso"
    /\ call.fn = "history"
    /\ \E r \in {TryTrial(call.t, call.fail)} :
          call' = [call EXCEPT !.fn = "ran",
                               !.alone = ConcatRows(<<>>, r.total_df),
                               !.after = ConcatRows(call.table, r.total_df)]
    /\ UNCHANGED <<pc, src_exists, listing, si, seen, subj, sets, trial,
                   final_df, log, written, last, exc>>

NextIso ==
    \/ IsoEarlierTrial
    \/ IsoSkippedTrial
    \/ IsoRunTrial

SpecIso == InitIso /\ [][NextIso]_vars

(***************************************************************************)
(* train_ml.py: the experiment loop and the column dropping of             *)
(* train_model.  A column name is <<prefix, rest>>, a list argument is     *)
(* a record [none, list]: none marks an absent or None argument.  The      *)
(* list object of exp_config["drop_columns"] is the same for every         *)
(* combination of one experiment file; call.config is its content.         *)
(***************************************************************************)
Prefixes == 1..MaxPrefixes

\* df.columns
DfColumns == [k \in 1..MaxPrefixes |-> <<k, "x">>]

\* col.startswith(prefix)
StartsWith(col, prefix) == col[1] = prefix

None == [none |-> TRUE, list |-> <<>>]
ListOf(l) == [none |-> FALSE, list |-> l]

\* [col for col in df.columns if col.startswith(prefix)]
ColumnsWithPrefix(prefix) ==
    Keep(DfColumns, [k \in 1..Len(DfColumns) |-> StartsWith(DfColumns[k], prefix)])

\* for prefix in drop_prefixes: drop_columns += [...]
RECURSIVE ExtendByPrefixes(_, _)
ExtendByPrefixes(drop_columns, drop_prefixes) ==
    IF drop_prefixes = <<>> THEN drop_columns
    ELSE ExtendByPrefixes(drop_columns \o ColumnsWithPrefix(Head(drop_prefixes)),
                          Tail(drop_prefixes))

\* lines 57-66: dropped is the list given to X.drop, caller the content of
\* the caller's list object after the call (+= extends a list in place; a
\* None argument is replaced by a new list the caller never sees)
train_model(drop_columns, drop_prefixes) ==
    LET extended == ExtendByPrefixes(drop_columns.list, drop_prefixes.list)
    IN [dropped |-> extended,
        caller |-> IF drop_columns.none THEN None ELSE ListOf(extended)]

\* the values of drop_columns and drop_prefixes an experiment file gives
DropColumnsValues ==
    {None} \cup {ListOf(l) : l \in SeqsUpTo({DfColumns[k] : k \in 1..Len(DfColumns)},
                                              MaxDropped)}
DropPrefixesValues ==
    {None} \cup {ListOf(l) : l \in SeqsUpTo(Prefixes, MaxDropped)}

\* itertools.product(*elements.values()): the drop_prefixes of the
\* combinations of one experiment file, in order
Combinations ==
    UNION {[1..k -> DropPrefixesValues] : k \in 1..MaxCombinations}

InitTrain ==
    /\ pc = "train"
    /\ src_exists = FALSE
    /\ listing = <<>>
    /\ si = 0
    /\ seen = 0
    /\ subj = NoSubject
    /\ sets = <<>>
    /\ trial = NoTrial
    /\ final_df = <<>>
    /\ log = <<>>
    /\ written = NotWritten
    /\ last = NoLast
    /\ exc = NoExc
    /\ \E given \in DropColumnsValues, combinations \in Combinations :
          call = [fn |-> "experiments", given |-> given, config |-> given,
                  combinations |-> combinations, k |-> 0, dropped |-> <<>>]

\* one combination: exp_config.update(combination); train_model(df,
\* log_path, **exp_config)
CallTrainModel ==
    /\ pc = "train"
    /\ call.fn = "experiments"
    /\ call.k < Len(call.combinations)
    /\ \E r \in {train_model(call.config, call.combinations[call.k + 1])} :
          call' = [call EXCEPT !.k = @ + 1,
                               !.dropped = r.dropped,
                               !.config = r.caller]
    /\ UNCHANGED <<pc, src_exists, listing, si, seen, subj, sets, trial,
                   final_df, log, written, last, exc>>

\* the combinations of the experiment file are exhausted
EndExperiments ==
    /\ pc = "train"
    /\ call.fn = "experiments"
    /\ call.k = Len(call.combinations)
    /\ call' = [call EXCEPT !.fn = "trained"]
    /\ UNCHANGED <<pc, src_exists, listing, si, seen, subj, sets, trial,
                   final_df, log, written, last, exc>>

NextTrain ==
    \/ CallTrainModel
    \/ EndExperiments

SpecTrain == InitTrain /\ [][NextTrain]_vars

(***************************************************************************)
(* data_preparation.py: dl_split_data.  y is the sequence of the rows of   *)
(* the label table, [subject, label]; X is the sequence of the samples,    *)
(* each named by its row number; p_train is the fraction <<num, den>>.     *)
(***************************************************************************)
\* Variant of Unique: the distinct values in ascending order.
UniqueSorted(sq) == SortedSeq({sq[k] : k \in 1..Len(sq)})

\* Series.unique(): the distinct values in order of first appearance
RECURSIVE Unique(_)
Unique(sq) ==
    IF sq = <<>> THEN <<>>
    ELSE LET front == Unique(SubSeq(sq, 1, Len(sq) - 1))
             x == sq[Len(sq)]
         IN IF \E k \in 1..Len(front) : front[k] = x
            THEN front
            ELSE Append(front, x)

\* int(len(subjects) * p_train) for 0 <= p_train <= 1
TrainCount(n, p_train) == (n * p_train[1]) \div p_train[2]

Not(mask) == [k \in 1..Len(mask) |-> ~mask[k]]

dl_split_data(X, y, p_train) ==
    LET subjects == Unique([k \in 1..Len(y) |-> y[k].subject])
        train_subjects == SubSeq(subjects, 1, TrainCount(Len(subjects), p_train))
        train_mask == [k \in 1..Len(y) |->
                          \E j \in 1..Len(train_subjects) :
                              train_subjects[j] = y[k].subject]
        y_test == Keep(y, Not(train_mask))
        y_train == Keep(y, train_mask)
    IN [X_train |-> Keep(X, train_mask),
        y_train |-> [k \in 1..Len(y_train) |-> y_train[k].label],
        X_test |-> Keep(X, Not(train_mask)),
        y_test |-> [k \in 1..Len(y_test) |-> y_test[k].label]]

Labels == {"low", "high"}

\* values of p_train: binary fractions and the default 0.8, for which the
\* floating-point product is the exact one
TrainFractions == {<<0, 1>>, <<1, 4>>, <<1, 2>>, <<3, 4>>, <<4, 5>>, <<1, 1>>}

LabelTables ==
    SeqsUpTo([subject : 1..MaxSplitSubjects, label : Labels], MaxSamples)

NoSplit == [X_train |-> <<>>, y_train |-> <<>>, X_test |-> <<>>, y_test |-> <<>>]

InitSplit ==
    /\ pc = "split"
    /\ src_exists = FALSE
    /\ listing = <<>>
    /\ si = 0
    /\ seen = 0
    /\ subj = NoSubject
    /\ sets = <<>>
    /\ trial = NoTrial
    /\ final_df = <<>>
    /\ log = <<>>
    /\ written = NotWritten
    /\ last = NoLast
    /\ exc = NoExc
    /\ \E y \in LabelTables, p_train \in TrainFractions :
          call = [fn |-> "args", X |-> [k \in 1..Len(y) |-> k], y |-> y,
                  p_train |-> p_train, split |-> NoSplit]

CallSplit ==
    /\ pc = "split"
    /\ call.fn = "args"
    /\ call' = [call EXCEPT
                  !.fn = "dl_split_data",
                  !.split = dl_split_data(call.X, call.y, call.p_train)]
    /\ UNCHANGED <<pc, src_exists, listing, si, seen, subj, sets, trial,
                   final_df, log, written, last, exc>>

NextSplit == CallSplit

SpecSplit == InitSplit /\ [][NextSplit]_vars

(***************************************************************************)
(* Properties of the shift search and of the matcher (SpecFn).             *)
(***************************************************************************)
XcCalled == call.fn = "calculate_cross_correlation_arrays"
MatchCalled == call.fn = "match_flywheel_data"

CountTrue(mask) == Cardinality({i \in 1..Len(mask) : mask[i]})

\* the score is zero: P*sqrt(ct) = Q*sqrt(cr)
ScoreIsZero(d) == ~d.nan /\ SignOf(d.P, d.Q, d.ct, d.cr) = 0

\* the standardised window at offset s equals the standardised target
WindowEqualsTarget(r, t, s) ==
    \A i \in 1..t.n : SignOf(r.a[s + i], t.a[i], r.n * t.w, t.n * r.w) = 0

\* C1: called with len(reference) >= len(target), the search does not fail,
\* builds one score per offset 0..len(reference)-len(target), each the sum
\* of absolute differences of the standardised window and target (so zero
\* exactly when they coincide), and returns an offset of that range that no
\* other offset of the range beats.
C1_ScoresEveryOffsetReturnsMinimum ==
    (XcCalled /\ Len(call.x) >= Len(call.y)) =>
        LET reference == ArrayOf(call.x)
            target == ArrayOf(call.y)
            diffs == Diffs(reference, target)
            r == Standardize(reference)
            t == Standardize(target)
        IN /\ ~call.xc.raised
           /\ DOMAIN diffs = {s + 1 : s \in ShiftRange(reference, target)}
           /\ call.xc.shift \in ShiftRange(reference, target)
           /\ \A s \in ShiftRange(reference, target) :
                 /\ ~ScoreLess(diffs[s + 1], diffs[call.xc.shift + 1])
                 /\ ~diffs[s + 1].nan =>
                       (ScoreIsZero(diffs[s + 1]) <=> WindowEqualsTarget(r, t, s))

\* C1 witness: three or more offsets, the last offsets score strictly lower
\* than the first, and the offset returned is not the first.
C1_Witness ==
    /\ XcCalled
    /\ Len(call.x) - Len(call.y) >= 2
    /\ call.xc.shift = 2
    /\ LET diffs == Diffs(ArrayOf(call.x), ArrayOf(call.y))
       IN /\ ScoreLess(diffs[3], diffs[1])
          /\ ScoreLess(diffs[2], diffs[1])

\* C7: for identical reference and target the search returns 0.
C7_IdenticalSequencesShiftZero ==
    (XcCalled /\ call.x = call.y) => (~call.xc.raised /\ call.xc.shift = 0)

\* C7 witness: the search has run on two identical, non-constant sequences.
C7_Witness ==
    /\ XcCalled
    /\ call.x = call.y
    /\ Len(call.x) >= 2
    /\ call.x[1] # call.x[2]
    /\ call.xc.shift = 0

\* C8: for reference [1,2,3,4,5] and target [2,3,4] the search returns 1.
C8_ExampleShiftOne ==
    (XcCalled /\ call.x = <<1, 2, 3, 4, 5>> /\ call.y = <<2, 3, 4>>) =>
        (~call.xc.raised /\ call.xc.shift = 1)

\* C8 witness: the search has run on the example and returned 1.
C8_Witness ==
    /\ XcCalled
    /\ call.x = <<1, 2, 3, 4, 5>>
    /\ call.y = <<2, 3, 4>>
    /\ call.xc.shift = 1

\* C2: with K # R the mask of the longer side has the length of that side
\* and is True exactly on [shift, shift + min(K, R)), shift being what the
\* search returns for the longer and the shorter duration column; the mask
\* of the shorter side is all True; both select min(K, R) repetitions.
C2_LongerSideMaskedOnAlignedRange ==
    (MatchCalled /\ Len(call.x) # Len(call.y)) =>
        LET R == Len(call.x)
            K == Len(call.y)
            n == Min2(K, R)
            longer == IF R > K THEN call.x ELSE call.y
            shorter == IF R > K THEN call.y ELSE call.x
            long_mask == IF R > K THEN call.m.flywheel_mask ELSE call.m.pos_mask
            short_mask == IF R > K THEN call.m.pos_mask ELSE call.m.flywheel_mask
            found == calculate_cross_correlation_arrays(ArrayOf(longer),
                                                        ArrayOf(shorter))
        IN /\ ~call.m.raised
           /\ ~found.raised
           /\ Len(long_mask) = Max2(K, R)
           /\ \A i \in 1..Len(long_mask) :
                 long_mask[i] <=> (found.shift <= i - 1 /\ i - 1 < found.shift + n)
           /\ short_mask = AllTrue(n)
           /\ CountTrue(long_mask) = n
           /\ CountTrue(short_mask) = n

\* C2 witness: the counts differ, the shorter side has two or more
\* repetitions and the aligned range does not start at the first one.
C2_Witness ==
    /\ MatchCalled
    /\ Len(call.x) > Len(call.y)
    /\ Len(call.y) >= 2
    /\ call.m.shift >= 1
    /\ ~call.m.flywheel_mask[1]
    /\ call.m.flywheel_mask[Len(call.x)]

\* C3: with K = R both masks are all True and of length K, and the matcher
\* makes no shift search.
C3_EqualCountsIdentityNoSearch ==
    (MatchCalled /\ Len(call.x) = Len(call.y)) =>
        /\ ~call.m.raised
        /\ call.m.flywheel_mask = AllTrue(Len(call.x))
        /\ call.m.pos_mask = AllTrue(Len(call.y))
        /\ call.m.searches = <<>>

\* C3 witness: the matcher has run on two different columns of equal length.
C3_Witness ==
    /\ MatchCalled
    /\ Len(call.x) = Len(call.y)
    /\ Len(call.x) >= 2
    /\ call.x # call.y
    /\ call.m.pos_mask = <<TRUE, TRUE>>

\* C9: with K = 0 and R # 0 the matcher signals an error, makes no shift
\* search and returns no masks.
C9_ZeroRepetitionsUnusable ==
    (MatchCalled /\ Len(call.y) = 0 /\ Len(call.x) # 0) =>
        /\ call.m.raised
        /\ call.m.searches = <<>>

(***************************************************************************)
(* Properties of the batch run (Spec).                                     *)
(***************************************************************************)
Terminated == pc \in {"done", "aborted"}

Logged(level, subject, set_id) ==
    \E i \in 1..Len(log) : log[i] = LogRec(level, subject, set_id)

\* C4: an exception raised while one trial is processed is logged and does
\* not leave the run, so the run is never aborted by a trial and reaches the
\* step that writes the output table.
C4_TrialExceptionContained ==
    /\ exc.kind \in TrialExceptions =>
          (pc # "aborted" /\ Logged("error", exc.subject, exc.set_id))
    /\ last.status = "error" => Logged("error", last.subject, last.set_id)

\* every device table of the trial holds samples of all K repetitions
AllDevicesSegmented == last.imu_rows = last.K /\ last.hrv_rows = last.K

\* C5: a trial that is processed successfully, K repetitions segmented in
\* every device table, contributes min(K, R) rows.
C5_RowsEqualReconciledCount ==
    (last.status = "ok" /\ AllDevicesSegmented) =>
        Len(last.total_df) = Min2(last.K, last.R)

\* C6: in every row of the assembled table of a trial, K repetitions
\* segmented in every device table, all device cells are present and the
\* Kinect position, Kinect orientation, IMU and HRV cells come from the
\* same repetition.
C6_RowsAlignedAcrossDevices ==
    (last.status = "ok" /\ AllDevicesSegmented) =>
        \A i \in 1..Len(last.total_df) :
            LET row == last.total_df[i]
            IN /\ row.pos # NaN
               /\ row.fly # NaN
               /\ row.ori = row.pos
               /\ row.imu = row.pos
               /\ row.hrv = row.pos

\* C10: when the label file of a subject is absent, the run still ends with
\* the output written, the failure logged and every entry of the source
\* directory iterated.
C10_MissingLabelFileConfined ==
    \A i \in 1..Len(listing) :
        (Terminated /\ exc.kind \in {"none", "rpe_file"} /\ ~listing[i]) =>
            /\ written.done
            /\ si = Len(listing)
            /\ \E k \in 1..Len(log) :
                  log[k].level = "error" /\ log[k].subject = i

\* C11: a trial whose try block raises leaves the accumulating table as it
\* was: no row is appended and the rows of earlier trials are unchanged.
C11_FailedTrialLeavesTableUnchanged ==
    [][(pc = "yielded" /\ last'.status = "error") => final_df' = final_df]_vars

\* C11 witness: a trial with segmented repetitions has failed after an
\* earlier trial had put rows into the table, and those rows are the table.
C11_Witness ==
    /\ last.status = "error"
    /\ last.K >= 1
    /\ last.imu_rows >= 1
    /\ Len(final_df) >= 1
    /\ \A i \in 1..Len(final_df) :
          <<final_df[i].subject, final_df[i].set_id>> # <<last.subject, last.set_id>>

Key(row) == <<row.subject, row.set_id, row.rep_id>>

KeyUnique(df) ==
    \A i, j \in 1..Len(df) : Key(df[i]) = Key(df[j]) => i = j

\* the rows of a table that belong to set set_id of subject
RowsOf(df, subject, set_id) ==
    {i \in 1..Len(df) : df[i].subject = subject /\ df[i].set_id = set_id}

\* the rows of every (subject, set_id) of the table are numbered 0..n-1
NumberedPerSet(df) ==
    \A i \in 1..Len(df) :
        LET rows == RowsOf(df, df[i].subject, df[i].set_id)
        IN {df[k].rep_id : k \in rows} = 0..(Cardinality(rows) - 1)

\* rpe is the entry of the subject's rating list at index set_id
LabelOfSet(df) ==
    \A i \in 1..Len(df) :
        df[i].rpe = rpe_ratings(df[i].subject, MaxSets)[df[i].set_id + 1]

\* the rows a trial contributes carry its identity and are numbered 0..n-1
TrialRowsNumbered ==
    /\ pc = "yielded" =>
          /\ trial.subject = subj.name
          /\ trial.rpe = subj.rpe_values[trial.set_id + 1]
    /\ last.status = "ok" =>
          \A i \in 1..Len(last.total_df) :
             /\ last.total_df[i].subject = last.subject
             /\ last.total_df[i].set_id = last.set_id
             /\ last.total_df[i].rep_id = i - 1

\* C12 as stated: every row carries the subject, set_id and label of its
\* trial and a rep_id numbering the trial's rows 0..n-1, and the key
\* (subject, set_id, rep_id) is unique across the rows of the table, in
\* memory and as written.
C12_RowsLabelledKeyUnique ==
    /\ TrialRowsNumbered
    /\ LabelOfSet(final_df)
    /\ LabelOfSet(written.rows)
    /\ KeyUnique(final_df)
    /\ KeyUnique(written.rows)

\* no two set folders iterated so far carry the same number within one
\* subject (line 156 logs one info record per set folder)
DistinctSetNumbers ==
    \A i, j \in 1..Len(log) :
        (log[i].level = "info" /\ log[j] = log[i]) => i = j

\* C12 amended: as C12, the key being unique across the table whenever the
\* set folders of each subject start with pairwise different numbers.
C12_RowsLabelledKeyUniquePerSetNumber ==
    /\ TrialRowsNumbered
    /\ LabelOfSet(final_df)
    /\ LabelOfSet(written.rows)
    /\ DistinctSetNumbers =>
          /\ KeyUnique(final_df)
          /\ KeyUnique(written.rows)
          /\ NumberedPerSet(final_df)
          /\ NumberedPerSet(written.rows)

\* C12 witness: the table has been written with rows of two trials, one of
\* them with two rows, and no set number was repeated.
C12_Witness ==
    /\ pc = "done"
    /\ DistinctSetNumbers
    /\ Len(written.rows) >= 3
    /\ \E i, j \in 1..Len(written.rows) :
          /\ <<written.rows[i].subject, written.rows[i].set_id>>
                # <<written.rows[j].subject, written.rows[j].set_id>>
          /\ written.rows[i].rep_id = 1
          /\ written.rows[j].rep_id = 0

(***************************************************************************)
(* Properties of the segmenter (SpecSeg).                                  *)
(***************************************************************************)
SegCalled == call.fn = "segment_exercises_based_on_joint"

\* the peaks the peak-finding step detected in the signal of the call
DetectedPeaks == find_peaks(call.joint_data)

\* C13: when no peak is detected the segmenter raises no error and returns
\* no interval, whatever the signal.
C13_ZeroPeaksEmptyResult ==
    (SegCalled /\ DetectedPeaks = <<>>) =>
        (~call.seg.raised /\ call.seg.candidates = <<>>)

\* C14: a signal of fewer than 2 samples makes the segmenter fail.
C14_ShortSignalFails ==
    (SegCalled /\ Len(call.joint_data) < 2) => call.seg.raised

\* the inter-peak intervals of the detected peaks
InterPeak == Pairs(DetectedPeaks)

\* two or more peaks, evenly spaced, every inter-peak interval longer than
\* the minimum duration and moving enough to pass the deviation test
CleanPeaks ==
    /\ Len(DetectedPeaks) >= 2
    /\ \A k \in 1..Len(InterPeak) :
          /\ InterPeak[k][2] - InterPeak[k][1] = InterPeak[1][2] - InterPeak[1][1]
          /\ InterPeak[k][2] - InterPeak[k][1] > call.min_duration
          /\ ~StdBelowMin(Slice(call.joint_data, InterPeak[k][1], InterPeak[k][2]))

\* C15: for P clean, evenly spaced peaks the segmenter returns exactly the
\* P-1 intervals between consecutive peaks (4 intervals for 5 peaks).
C15_CleanPeaksGiveInterPeakIntervals ==
    (SegCalled /\ CleanPeaks) =>
        /\ ~call.seg.raised
        /\ call.seg.candidates = InterPeak
        /\ Len(call.seg.candidates) = Len(DetectedPeaks) - 1

\* a/b < c/d for a, c >= 0 and b, d > 0, by integer parts and remainders
RECURSIVE RatLess(_, _, _, _)
RatLess(a, b, c, d) ==
    IF a \div b # c \div d THEN a \div b < c \div d
    ELSE IF a % b = 0 THEN c % d > 0
    ELSE IF c % d = 0 THEN FALSE
    ELSE RatLess(d, c % d, b, a % b)

\* std(observation) < std_dev_p * std(signal), with std_dev_p = 2/5: the
\* squares are compared
StdBelowFraction(obs, x) ==
    /\ Len(obs) > 0
    /\ RatLess(StdDevPDen * StdDevPDen * VarTimesN2(obs), Len(obs) * Len(obs),
               StdDevPNum * StdDevPNum * VarTimesN2(x), Len(x) * Len(x))

IsReturned(c) == \E k \in 1..Len(call.seg.candidates) : call.seg.candidates[k] = c

\* C16: a candidate is rejected exactly when it is shorter than the minimum
\* duration or its standard deviation is below std_dev_p times that of the
\* whole signal; the returned intervals are the remaining candidates,
\* unchanged.
C16_RejectedIffShortOrFlat ==
    (SegCalled /\ ~call.seg.raised) =>
        LET cands == Pairs(call.seg.peaks)
        IN /\ \A k \in 1..Len(cands) :
                 ~IsReturned(cands[k]) <=>
                    \/ cands[k][2] - cands[k][1] < call.min_duration
                    \/ StdBelowFraction(Slice(call.joint_data, cands[k][1], cands[k][2]),
                                        call.joint_data)
           /\ \A k \in 1..Len(call.seg.candidates) :
                 \E j \in 1..Len(cands) : cands[j] = call.seg.candidates[k]

\* C17: the boundary list is 0, the detected peaks, len(signal)-1; it is
\* strictly increasing, so the candidates between adjacent boundaries have
\* positive length and tile [0, len(signal)-1).
C17_BoundariesStrictlyIncreasing ==
    SegCalled =>
        LET b == call.seg.peaks
        IN /\ b = <<0>> \o DetectedPeaks \o <<Len(call.joint_data) - 1>>
           /\ \A k \in 1..(Len(b) - 1) : b[k] < b[k + 1]
           /\ \A i \in 0..(Len(call.joint_data) - 2) :
                 Cardinality({k \in 1..(Len(b) - 1) : b[k] <= i /\ i < b[k + 1]}) = 1

\* C18: the returned intervals are in time order and pairwise disjoint:
\* each is non-empty and ends no later than the next one starts, so the
\* repetition index of a sample is unique and never decreases with time.
C18_AcceptedOrderedDisjoint ==
    SegCalled =>
        LET c == call.seg.candidates
        IN /\ \A k \in 1..Len(c) : c[k][1] < c[k][2]
           /\ \A i, j \in 1..Len(c) : i < j => c[i][2] <= c[j][1]
           /\ \A t \in 0..(Len(call.joint_data) - 1) :
                 Cardinality({k \in 1..Len(c) : c[k][1] <= t /\ t < c[k][2]}) <= 1

\* C18 witness: three intervals are returned and a rejected candidate lies
\* between two of them.
C18_Witness ==
    /\ SegCalled
    /\ Len(call.seg.candidates) >= 2
    /\ \E k \in 1..(Len(call.seg.candidates) - 1) :
          call.seg.candidates[k][2] < call.seg.candidates[k + 1][1]

(***************************************************************************)
(* Properties of the device synchronisation (SpecRaw).                     *)
(***************************************************************************)
RawProcessed == call.fn = "process_all_raw_data" /\ call.set_id >= 0

\* C19: for each trial the offset is computed once and added to the time
\* index of the Kinect position, orientation and acceleration tables; the
\* IMU, HRV and flywheel tables keep their time index.
C19_OneOffsetForKinectTables ==
    RawProcessed =>
        /\ Len(call.shift_calls) = 1
        /\ call.csv.pos = ShiftIndex(call.trial.pos_df, call.shift_calls[1])
        /\ call.csv.ori = ShiftIndex(call.trial.pos_df, call.shift_calls[1])
        /\ call.azure_acc_df = ShiftIndex(call.trial.pos_df, call.shift_calls[1])
        /\ call.csv.imu = call.trial.imu_df
        /\ call.csv.hrv = call.trial.hrv_df
        /\ call.csv.flywheel = call.trial.flywheel_df

\* C19 witness: a trial has been processed with a non-zero offset and the
\* Kinect tables no longer start where the IMU table, unchanged, does.
C19_Witness ==
    /\ RawProcessed
    /\ call.shift_calls[1] # 0
    /\ call.trial.pos_df = call.trial.imu_df
    /\ call.csv.pos # call.csv.imu
    /\ call.csv.ori = call.csv.pos

(***************************************************************************)
(* Order of the calls inside one trial (Spec).                             *)
(***************************************************************************)
CallsBefore(first, second) ==
    \A i, j \in 1..Len(last.calls) :
        (last.calls[i] = first /\ last.calls[j] = second) => i < j

Yielded == pc = "yielded"

\* C21: a trial whose segmentation gives no repetition is not yielded and
\* reaches neither feature extraction nor the matcher.
C21_ZeroRepetitionsSkipped ==
    /\ Yielded => trial.pos_df # {}
    /\ last.status # "none" => last.K > 0

\* C22: in a yielded trial none of the position, orientation, IMU and HRV
\* tables holds a sample labelled with the unassigned sentinel.
C22_NoUnassignedSampleYielded ==
    Yielded =>
        /\ Unassigned \notin trial.pos_df
        /\ Unassigned \notin trial.ori_df
        /\ Unassigned \notin trial.imu_df
        /\ Unassigned \notin trial.hrv_df

\* C22 witness: a trial is yielded whose IMU table had unassigned samples
\* (it had as many labels as the position table and now has fewer).
C22_Witness ==
    /\ Yielded
    /\ trial.pos_reps = trial.imu_reps
    /\ Cardinality(trial.imu_df) < trial.imu_reps
    /\ Cardinality(trial.imu_df) >= 1

IsWarning(rec) == rec.level = "warning"

\* the records the step appends to the log
NewRecords == {log'[k] : k \in (Len(log) + 1)..Len(log')}

\* C28: a trial is yielded only with equal numbers of distinct labels in
\* the position and IMU tables; with different numbers the set is skipped
\* with a warning, the table and the yielded trial are untouched and the
\* set loop goes on.
C28_YieldedOnlyWithEqualLabelCounts ==
    /\ [](Yielded => trial.pos_reps = trial.imu_reps)
    /\ [][\A rec \in NewRecords :
             IsWarning(rec) =>
                /\ rec.pos_reps # rec.imu_reps
                /\ final_df' = final_df
                /\ trial' = trial
                /\ pc' = "sets"]_vars
    /\ [][(pc = "sets" /\ sets # <<>> /\ pc' = "sets") =>
             \E rec \in NewRecords : IsWarning(rec)]_vars

\* C28 witness: a set was skipped with a warning, a later set was yielded
\* and put rows into the table, and the run has ended.
C28_Witness ==
    /\ pc = "done"
    /\ final_df # <<>>
    /\ \E i, j \in 1..Len(log) :
          /\ i < j
          /\ IsWarning(log[i])
          /\ log[j].level = "info"
          /\ \E k \in 1..Len(final_df) :
                /\ final_df[k].subject = log[j].subject
                /\ final_df[k].set_id = log[j].set_id
                /\ <<log[j].subject, log[j].set_id>> # <<log[i].subject, log[i].set_id>>

(***************************************************************************)
(* Order of processing (Spec).                                             *)
(***************************************************************************)
\* the numbers of the sets of a subject that were started, in log order
StartedSets(name) ==
    LET started == Keep(log, [k \in 1..Len(log) |->
                                log[k].level = "info" /\ log[k].subject = name])
    IN [k \in 1..Len(started) |-> started[k].set_id]

IsPrefix(a, b) == Len(a) <= Len(b) /\ a = SubSeq(b, 1, Len(a))

Occurrences(sq, x) == Cardinality({k \in 1..Len(sq) : sq[k] = x})

SameElements(a, b) ==
    /\ Len(a) = Len(b)
    /\ \A k \in 1..Len(a) : Occurrences(a, a[k]) = Occurrences(b, a[k])

Ascending(sq) == \A k \in 1..(Len(sq) - 1) : sq[k] <= sq[k + 1]

\* subjects are taken in the order of the listing and no set of an earlier
\* subject is started after a set of a later one
SubjectsInListingOrder ==
    /\ subj.name <= si
    /\ pc \in {"sets", "yielded"} => subj.name = si
    /\ \A k \in 1..Len(log) : log[k].subject <= si
    /\ \A i, j \in 1..Len(log) : i < j => log[i].subject <= log[j].subject

\* a step that starts a set finds no trial pending, and the step that
\* handles the pending trial finishes it: its rows are appended or its
\* failure is logged, and no trial is pending afterwards
OneTrialAtATime ==
    /\ (\E rec \in NewRecords : rec.level = "info") => trial = NoTrial
    /\ Yielded =>
          /\ trial' = NoTrial
          /\ last'.subject = trial.subject
          /\ last'.set_id = trial.set_id
          /\ \/ /\ last'.status = "ok"
                /\ final_df' = final_df \o last'.total_df
                /\ log' = log
             \/ /\ last'.status = "error"
                /\ final_df' = final_df
                /\ log' = Append(log, LogRec("error", trial.subject, trial.set_id))

\* C23 as stated: subjects in the order the source directory lists them,
\* the sets of a subject in the order its directory lists them, and one
\* trial at a time.
C23_DirectoryListingOrder ==
    /\ [](SubjectsInListingOrder /\ (Yielded => log[Len(log)].set_id = trial.set_id))
    /\ [](subj.name # 0 => IsPrefix(StartedSets(subj.name), subj.set_listing))
    /\ [][OneTrialAtATime]_vars

\* C23 amended: as C23, the sets of a subject being taken in ascending
\* order of the number their folder name starts with, whatever the order
\* of the listing.
C23_SetsInAscendingOrder ==
    /\ [](SubjectsInListingOrder /\ (Yielded => log[Len(log)].set_id = trial.set_id))
    /\ [](subj.name # 0 =>
            /\ StartedSets(subj.name) \o sets \in
                  {sq \in {StartedSets(subj.name) \o sets} : Ascending(sq)}
            /\ (pc # "aborted" =>
                  SameElements(StartedSets(subj.name) \o sets, subj.set_listing)))
    /\ [][OneTrialAtATime]_vars

\* C23 witness: the directory of the first subject listed set 1 before
\* set 0, and both were handled, set 0 first.
C23_Witness ==
    /\ subj.name = 1
    /\ subj.set_listing = <<1, 0>>
    /\ sets = <<>>
    /\ StartedSets(1) = <<0, 1>>
    /\ last.status = "ok"
    /\ last.subject = 1
    /\ last.set_id = 1
    /\ Len(final_df) >= 2
    /\ final_df[1].set_id = 0
    /\ final_df[Len(final_df)].set_id = 1

(***************************************************************************)
(* Ties, argument order and exact sub-sequences (SpecFn).                  *)
(***************************************************************************)
Tied(sa, sb) == ~sa.nan /\ ~sb.nan /\ ~ScoreLess(sa, sb) /\ ~ScoreLess(sb, sa)

\* C24: every offset before the returned one scores strictly worse than
\* it, so of several offsets with the best score the smallest is returned
\* (a score that is not a number counts as the best).
C24_TiesGiveSmallestOffset ==
    (XcCalled /\ ~call.xc.raised) =>
        LET diffs == Diffs(ArrayOf(call.x), ArrayOf(call.y))
            shift == call.xc.shift
        IN \A s \in 0..(shift - 1) :
              /\ ~diffs[s + 1].nan
              /\ ~diffs[shift + 1].nan => ScoreLess(diffs[shift + 1], diffs[s + 1])

\* C24 witness: the returned offset is not the first, and a later offset
\* has the same score as the returned one.
C24_Witness ==
    /\ XcCalled
    /\ ~call.xc.raised
    /\ call.xc.shift >= 1
    /\ LET diffs == Diffs(ArrayOf(call.x), ArrayOf(call.y))
       IN \E s \in (call.xc.shift + 2)..Len(diffs) :
             Tied(diffs[s], diffs[call.xc.shift + 1])

\* C26: every shift search the matcher makes gets the strictly longer
\* column as reference, so it has one candidate or more and does not fail;
\* 0 <= shift <= |K - R|, shift + min(K, R) <= max(K, R), and each mask has
\* the length of its side.
C26_LongerIsReferenceShiftInRange ==
    MatchCalled =>
        LET R == Len(call.x)
            K == Len(call.y)
        IN /\ ~call.m.raised
           /\ \A k \in 1..Len(call.m.searches) :
                 LET reference == call.m.searches[k][1]
                     target == call.m.searches[k][2]
                 IN /\ Len(reference.v) = Max2(K, R)
                    /\ Len(target.v) = Min2(K, R)
                    /\ Len(reference.v) > Len(target.v)
                    /\ Diffs(reference, target) # <<>>
           /\ (K # R) => Len(call.m.searches) = 1
           /\ 0 <= call.m.shift
           /\ call.m.shift <= Max2(K, R) - Min2(K, R)
           /\ call.m.shift + Min2(K, R) <= Max2(K, R)
           /\ Len(call.m.flywheel_mask) = R
           /\ Len(call.m.pos_mask) = K

\* C26 witness: the Kinect side is longer by two, the search was made and
\* returned the largest offset of the range.
C26_Witness ==
    /\ MatchCalled
    /\ Len(call.y) = Len(call.x) + 2
    /\ Len(call.x) >= 2
    /\ Len(call.m.searches) = 1
    /\ call.m.shift = 2
    /\ call.m.pos_mask[Len(call.y)]
    /\ ~call.m.pos_mask[1]

IsWindow(reference, target, s) ==
    /\ 0 <= s
    /\ s + Len(target) <= Len(reference)
    /\ SubSeq(reference, s + 1, s + Len(target)) = target

\* C27: when the target is a contiguous sub-sequence of the reference, the
\* search returns an offset whose reference window equals the target.
C27_ExactSubsequenceFound ==
    (XcCalled /\ \E i \in 0..Len(call.x) : IsWindow(call.x, call.y, i)) =>
        /\ ~call.xc.raised
        /\ IsWindow(call.x, call.y, call.xc.shift)

(***************************************************************************)
(* Rows of a trial and earlier trials (SpecIso).                           *)
(***************************************************************************)
IsoRan == pc = "iso" /\ call.fn = "ran"

Range(sq) == {sq[k] : k \in 1..Len(sq)}

\* C29: after every call of train_model the caller's drop_columns is what
\* the experiment file gave, and the columns the call dropped are those
\* and the columns that start with one of the call's own drop_prefixes.
C29_DropColumnsNotCarriedOver ==
    (pc = "train" /\ call.k >= 1) =>
        /\ call.config = call.given
        /\ Range(call.dropped) =
              Range(call.given.list) \cup
              {col \in Range(DfColumns) :
                  \E prefix \in Range(call.combinations[call.k].list) :
                      StartsWith(col, prefix)}

(***************************************************************************)
(* Split by subject (SpecSplit).                                           *)
(***************************************************************************)
SplitCalled == pc = "split" /\ call.fn = "dl_split_data"

SubjectsOf(rows) == {call.y[rows[k]].subject : k \in 1..Len(rows)}

\* the row of y in which a subject appears first
FirstRow(subject) ==
    CHOOSE k \in 1..Len(call.y) :
        /\ call.y[k].subject = subject
        /\ \A j \in 1..(k - 1) : call.y[j].subject # subject

\* the number of subjects that appear before a subject does
Rank(subject) ==
    Cardinality({u \in SubjectsOf(call.X) : FirstRow(u) < FirstRow(subject)})

\* C30: every sample is in exactly one of train and test, in its order; no
\* subject has samples on both sides; the train subjects are the first
\* floor(n * p_train) of the n subjects in order of first appearance; the
\* labels of each side are those of its samples, row by row.
C30_SplitPartitionsBySubject ==
    SplitCalled =>
        LET train == call.split.X_train
            test == call.split.X_test
            n == Cardinality(SubjectsOf(call.X))
        IN /\ Range(train) \cup Range(test) = Range(call.X)
           /\ Range(train) \cap Range(test) = {}
           /\ Len(train) + Len(test) = Len(call.X)
           /\ SubjectsOf(train) \cap SubjectsOf(test) = {}
           /\ \E c \in 0..n :
                 /\ c * call.p_train[2] <= n * call.p_train[1]
                 /\ n * call.p_train[1] < (c + 1) * call.p_train[2]
                 /\ SubjectsOf(train) = {u \in SubjectsOf(call.X) : Rank(u) < c}
           /\ Len(call.split.y_train) = Len(train)
           /\ Len(call.split.y_test) = Len(test)
           /\ \A k \in 1..Len(train) : call.split.y_train[k] = call.y[train[k]].label
           /\ \A k \in 1..Len(test) : call.split.y_test[k] = call.y[test[k]].label

\* C30 witness: three subjects, the one with the largest name first, half
\* of them go to train: one subject, the first, with two samples that
\* are not adjacent.
C30_Witness ==
    /\ SplitCalled
    /\ call.p_train = <<1, 2>>
    /\ Cardinality(SubjectsOf(call.X)) = 3
    /\ call.y[1].subject = 3
    /\ call.split.X_train = <<1, 3>>
    /\ call.split.X_test = <<2, 4>>
    /\ call.split.y_train[1] # call.split.y_train[2]

====
